---- MODULE Spec2Model ----
(***************************************************************************)
(* The multi-conversation streaming dispatcher: class Agent of agent.ts    *)
(* (messagesHandlers, the module-level cache sentMessages, messageReceived,*)
(* _sendMessageToClients, registerNewMessageHandler,                       *)
(* unregisterNewMessageHandler) and its caller, the POST /message route of *)
(* the web server.                                                         *)
(*                                                                         *)
(* JavaScript is single-threaded: every action below is one synchronous    *)
(* run-to-completion step; a messageReceived turn is suspended only at its *)
(* awaits (the creation of the stream and each next chunk of it).          *)
(***************************************************************************)
EXTENDS Naturals, Sequences, FiniteSets, TLC

\* ------------------------------------------------------------------ bounds
MaxTurns    == 2   \* messageReceived calls in one behaviour
MaxSnapLen  == 2   \* messages in one chunk
MaxHandlers == 2   \* handlers registered at one time, over all threads

\* ------------------------------------------------------------------ inputs
\* Thread ids are caller-supplied strings. "constructor" is one that names a
\* property every object literal inherits from Object.prototype.
ThreadIds == {"t1", "t2", "constructor"}
ObjectPrototypeKeys == {"constructor"}
OrdinaryThreadIds == ThreadIds \ ObjectPrototypeKeys
\* Handler functions, by identity.
Handlers == {"hA", "hB"}
\* Messages the agent collaborator puts in its chunks: m1 and m2 carry the id
\* of their name, u1 and u2 are two different messages that carry no id.
Messages == {"m1", "m2", "u1", "u2"}
IdLess   == {"u1", "u2"}
WithId   == Messages \ IdLess

RECURSIVE SeqsUpTo(_, _)
SeqsUpTo(S, n) ==
  IF n = 0 THEN {<<>>}
  ELSE LET shorter == SeqsUpTo(S, n - 1)
       IN shorter \cup {Append(s, x) : s \in shorter, x \in S}

\* chunk.messages of one streamed chunk (streamMode "values": the state's
\* list), over the messages M
Snapshots(M) == SeqsUpTo(M, MaxSnapLen)

Range(s) == {s[i] : i \in 1..Len(s)}

IsPrefix(s, t) == Len(s) <= Len(t) /\ SubSeq(t, 1, Len(s)) = s

VARIABLES
  messagesHandlers,  \* own properties of Agent.messagesHandlers: uuid -> value
  sentMessages,      \* keys of the module-level cache set to true
  turns,             \* the messageReceived calls made so far, in call order
  delivered,         \* history: per handler function, the messages it was
                     \* invoked with, in order
  markedBy,          \* history: per key of sentMessages, the thread id of the
                     \* turn that set it
  thrown,            \* what the latest register/unregister call raised
  requests,          \* the requests made to the web server: for each
                     \* handler closure, the GET /stream request that
                     \* created it and whether its connection is open; for
                     \* each turn, the POST /message request that started it
  fanout,            \* the position inside chunk.messages.forEach and the
                     \* forEach of _sendMessageToClients, when the handlers
                     \* invoked call back into the Agent
  universe,          \* the thread ids and handler functions the callers use
                     \* and the messages the agent collaborator yields in
                     \* this behaviour
  homework,          \* the script 03_homework_maker: its position, its
                     \* variables iteracion, messages and response
  state,             \* the agent state that the middleware trimMessages is
                     \* given: state.messages, and the ids given out so far
  indexer,           \* the script 05_mdn-vector-indexer: its position, the
                     \* url its delete loop is at, and which run it is
  collection         \* the Qdrant collection COLLECTION_NAME: whether it
                     \* exists, and its points

\* the variables of the web server's process: the Agent and its callers
agentVars == <<messagesHandlers, sentMessages, turns, delivered, markedBy, thrown,
              requests, fanout>>

\* the variables of the scripts, which run as processes of their own
scriptVars == <<homework, state, indexer, collection>>

vars == <<messagesHandlers, sentMessages, turns, delivered, markedBy, thrown,
          requests, fanout, universe, scriptVars>>

\* ------------------------------------------------------- JavaScript values
Undefined  == [kind |-> "undefined", items |-> <<>>]
\* a function inherited from Object.prototype (Object, for "constructor")
ObjectFn   == [kind |-> "function", items |-> <<>>]
Arr(s)     == [kind |-> "array", items |-> s]

Truthy(v) == v.kind # "undefined"

\* obj[key] on an object created by the literal {}: own property, else the
\* prototype chain, else undefined.
Get(obj, key) ==
  IF key \in DOMAIN obj THEN obj[key]
  ELSE IF key \in ObjectPrototypeKeys THEN ObjectFn
  ELSE Undefined

\* an assignment that drops the other properties of the object
Put_DropsOthers(obj, key, value) == [k \in {key} |-> value]

\* obj[key] = value: creates or overwrites the own property.
Put(obj, key, value) ==
  [k \in DOMAIN obj \cup {key} |-> IF k = key THEN value ELSE obj[k]]

\* `${msg.id}`: the key of a message in sentMessages. A message without id
\* renders as the string "undefined".
Key(msg) == IF msg \in IdLess THEN "undefined" ELSE msg

\* ------------------------------------------------------ 03_homework_maker
MAX_ITERACIONES == 6

\* the tools the loop knows by name
ToolNames == {"contar_palabras", "wikipedia-api", "calculator"}

\* messages of the history; the fields a kind of message does not have are
\* left empty. text: whether the message has text content.
Message(type, text, tool_calls, tool_call_id, content) ==
  [type |-> type, text |-> text, tool_calls |-> tool_calls,
   tool_call_id |-> tool_call_id, content |-> content]
SystemMessage        == Message("system", TRUE, <<>>, "", "systemPrompt")
HumanMessage(c)      == Message("human", TRUE, <<>>, "", c)
AIMessage(response)  == Message("ai", response.text, response.tool_calls, "", "")
ToolMessage(c, id)   == Message("tool", TRUE, <<>>, id, c)

ToolCall(name, id) == [name |-> name, id |-> id]
Response(text, tool_calls) == [text |-> text, tool_calls |-> tool_calls]

\* Responses of the model that ask for tools: a known tool; two known tools,
\* with text; an unknown tool before a known one; an unknown tool alone, with
\* text; twice the same tool.
ToolResponses ==
  {Response(FALSE, <<ToolCall("contar_palabras", "a")>>),
   Response(TRUE,  <<ToolCall("wikipedia-api", "a"), ToolCall("calculator", "b")>>),
   Response(FALSE, <<ToolCall("traductor", "a"), ToolCall("contar_palabras", "b")>>),
   Response(TRUE,  <<ToolCall("traductor", "a")>>),
   Response(TRUE,  <<ToolCall("calculator", "a"), ToolCall("calculator", "b")>>)}
\* Responses that ask for no tool, with and without text.
FinalResponses == {Response(TRUE, <<>>), Response(FALSE, <<>>)}

\* The model of a behaviour answers with one of two of the tool responses or
\* with a final response.
HomeworkUniverses ==
  {[responses |-> R \cup FinalResponses] :
     R \in {Q \in SUBSET ToolResponses : Cardinality(Q) = 2}}

\* the script before its loop: messages holds the system prompt and the
\* question. invocations and executed count the calls of modelWithTools.invoke
\* and of the tools' invoke made so far.
HomeworkStart ==
  [pc |-> "while", iteracion |-> 0,
   messages |-> <<SystemMessage, HumanMessage("question")>>,
   response |-> Response(FALSE, <<>>), call |-> 0,
   invocations |-> 0, executed |-> 0, informe |-> FALSE]

\* the loop's test taken as iteracion <= MAX_ITERACIONES
LoopGoesOn_OneMore(iteracion) == iteracion <= MAX_ITERACIONES

\* while (iteracion < MAX_ITERACIONES)
LoopGoesOn(iteracion) == iteracion < MAX_ITERACIONES

\* the loop's test: iteracion++ and the call of modelWithTools.invoke, or the
\* end of the loop
WhileTest ==
  /\ homework.pc = "while"
  /\ homework' =
       IF LoopGoesOn(homework.iteracion)
         THEN [homework EXCEPT !.iteracion = @ + 1, !.pc = "invoke",
                               !.invocations = @ + 1]
         ELSE [homework EXCEPT !.pc = "informe"]
  /\ UNCHANGED <<agentVars, universe, state, indexer, collection>>

\* modelWithTools.invoke resolves: the response is pushed; without tool calls
\* the loop is left (break), else the for loop over the calls begins
ModelResponds(response) ==
  /\ homework.pc = "invoke"
  /\ homework' =
       [homework EXCEPT
          !.messages = Append(@, AIMessage(response)),
          !.response = response,
          !.call = IF response.tool_calls = <<>> THEN 0 ELSE 1,
          !.pc = IF response.tool_calls = <<>> THEN "informe" ELSE "for"]
  /\ UNCHANGED <<agentVars, universe, state, indexer, collection>>

\* modelWithTools.invoke rejects: nothing catches it, the script ends
ModelRejects ==
  /\ homework.pc = "invoke"
  /\ homework' = [homework EXCEPT !.pc = "error"]
  /\ UNCHANGED <<agentVars, universe, state, indexer, collection>>

\* resultado of a call: what the tool returned, or the error text
Resultado(call) ==
  IF call.name \in ToolNames THEN "resultado"
  ELSE "Error: herramienta no reconocida"

\* the body of the for loop pushing the partial text in place of the
\* ToolMessage when the response has text
AnswerOf_TextOrTool(response, call) ==
  IF response.text THEN <<AIMessage(Response(TRUE, <<>>))>>
  ELSE <<ToolMessage(Resultado(call), call.id)>>

\* what the body of the for loop pushes for a call: the partial text of the
\* response if it has any, then the ToolMessage
AnswerOf(response, call) ==
  (IF response.text THEN <<AIMessage(Response(TRUE, <<>>))>> ELSE <<>>)
    \o <<ToolMessage(Resultado(call), call.id)>>

\* the body of the for loop for the call at hand, its tool (if known)
\* resolving; after the last call the loop's test is next
CallAnswered ==
  /\ homework.pc = "for"
  /\ LET call == homework.response.tool_calls[homework.call]
         last == homework.call = Len(homework.response.tool_calls)
     IN homework' =
          [homework EXCEPT
             !.messages = @ \o AnswerOf(homework.response, call),
             !.executed = IF call.name \in ToolNames THEN @ + 1 ELSE @,
             !.call = IF last THEN 0 ELSE @ + 1,
             !.pc = IF last THEN "while" ELSE "for"]
  /\ UNCHANGED <<agentVars, universe, state, indexer, collection>>

\* the tool of the call at hand rejects: nothing catches it, the script ends
ToolRejects ==
  /\ homework.pc = "for"
  /\ homework.response.tool_calls[homework.call].name \in ToolNames
  /\ homework' = [homework EXCEPT !.pc = "error", !.executed = @ + 1]
  /\ UNCHANGED <<agentVars, universe, state, indexer, collection>>

\* after the loop: the request for the report is pushed and
\* modelWithOutput.invoke is called
AskInforme ==
  /\ homework.pc = "informe"
  /\ homework' =
       [homework EXCEPT
          !.messages = Append(@, HumanMessage("Genera el informe final")),
          !.pc = "invokeInforme"]
  /\ UNCHANGED <<agentVars, universe, state, indexer, collection>>

\* modelWithOutput.invoke resolves with the report, which is printed
InformeDone ==
  /\ homework.pc = "invokeInforme"
  /\ homework' = [homework EXCEPT !.pc = "fin", !.informe = TRUE]
  /\ UNCHANGED <<agentVars, universe, state, indexer, collection>>

\* modelWithOutput.invoke rejects
InformeRejects ==
  /\ homework.pc = "invokeInforme"
  /\ homework' = [homework EXCEPT !.pc = "error"]
  /\ UNCHANGED <<agentVars, universe, state, indexer, collection>>

NextHomework ==
  \/ WhileTest
  \/ \E response \in universe.responses : ModelResponds(response)
  \/ ModelRejects
  \/ CallAnswered
  \/ ToolRejects
  \/ AskInforme
  \/ InformeDone
  \/ InformeRejects

\* ------------------------------------------------------------ trimMessages
MaxMessages == 7   \* messages ever added to state.messages

\* the marker new RemoveMessage({id: REMOVE_ALL_MESSAGES})
RemoveAll == [id |-> 0, type |-> "remove"]

\* Array.prototype.slice(start) of a sequence, start counted from the end
\* when negative (written here as its absolute value fromEnd)
SliceFromEnd(s, fromEnd) ==
  SubSeq(s, (IF Len(s) > fromEnd THEN Len(s) - fromEnd ELSE 0) + 1, Len(s))

\* beforeModel trimming histories of 3 messages too
BeforeModel_TrimsAtThree(messages) ==
  IF Len(messages) < 3 THEN <<>>
  ELSE <<RemoveAll, messages[1]>> \o SliceFromEnd(messages, 4)

\* beforeModel of trimMessages: the update it returns, <<>> standing for the
\* return without a value
BeforeModel(messages) ==
  IF Len(messages) <= 3 THEN <<>>
  ELSE LET firstMsg    == messages[1]
           recentMsgs  == SliceFromEnd(messages, 4)
           newMessages == <<firstMsg>> \o recentMsgs
       IN <<RemoveAll>> \o newMessages

\* state.messages after an update is applied to it: none leaves it as it is,
\* one that holds the RemoveAll marker replaces it by what follows the marker,
\* any other is appended
ApplyUpdate(messages, update) ==
  IF update = <<>> THEN messages
  ELSE LET marks == {i \in 1..Len(update) : update[i] = RemoveAll}
       IN IF marks = {} THEN messages \o update
          ELSE LET last == CHOOSE i \in marks : \A j \in marks : j <= i
               IN SubSeq(update, last + 1, Len(update))

\* an empty conversation
StateStart == [messages |-> <<>>, ids |-> 0]

\* a node of the agent adds a message (of the user, of the model or of a tool)
\* to the state, with an id of its own
AddMessage(type) ==
  /\ state.ids < MaxMessages
  /\ state' = [messages |-> ApplyUpdate(state.messages,
                                        <<[id |-> state.ids + 1, type |-> type]>>),
               ids |-> state.ids + 1]
  /\ UNCHANGED <<agentVars, universe, homework, indexer, collection>>

\* the middleware runs before a call of the model and its update is applied
TrimBeforeModel ==
  /\ state' = [state EXCEPT
                 !.messages = ApplyUpdate(@, BeforeModel(state.messages))]
  /\ UNCHANGED <<agentVars, universe, homework, indexer, collection>>

\* the kinds of message the nodes of the agent add
TrimUniverse == [types |-> {"human", "ai", "tool"}]

NextTrim ==
  \/ \E type \in universe.types : AddMessage(type)
  \/ TrimBeforeModel

\* -------------------------------------------------- 05_mdn-vector-indexer
MaxRuns == 2   \* runs of the script, one after the other

\* the urls to index, the two of the source
Urls == <<"Web_Storage_API", "Using_the_Web_Storage_API">>
IndexedUrls == {Urls[i] : i \in 1..Len(Urls)}

\* allSplits: the chunks of the loaded pages, each with the url of its page
\* as metadata.source; the pages do not change between the runs
AllSplits ==
  {[source |-> Urls[1], chunk |-> 1], [source |-> Urls[1], chunk |-> 2],
   [source |-> Urls[2], chunk |-> 1]}

\* a point of the collection: a vector with its payload, under an id of its
\* own, which the run that inserted it stands for (run 0: before the runs)
Point(split, run) == [source |-> split.source, chunk |-> split.chunk, run |-> run]

\* points the collection may hold before the first run: of the indexed pages,
\* as they are now or as they were, and of another page
OldPoints ==
  {Point([source |-> Urls[1], chunk |-> 1], 0),
   Point([source |-> Urls[1], chunk |-> 3], 0),
   Point([source |-> Urls[2], chunk |-> 1], 0),
   Point([source |-> "Storage_API", chunk |-> 1], 0)}

\* the script takes no input but the pages and the collection
IndexerUniverse == [urls |-> IndexedUrls]

NoCollection == [exists |-> FALSE, points |-> {}]

\* what a call of the Qdrant client rejects with: the status of the answer
\* (0 when there was none) and whether the message contains "not found"
Error(status, notFound) == [status |-> status, notFound |-> notFound]

\* no error
NoError == Error(200, FALSE)

\* the errors of a delete on a collection that does not exist
NotFoundErrors == {Error(404, TRUE), Error(404, FALSE), Error(0, TRUE)}

\* the errors of a delete that has another cause: the server, the network
OtherErrors == {Error(500, FALSE), Error(0, FALSE)}

\* the errors a delete may be rejected with now
DeleteErrors ==
  IF collection.exists THEN OtherErrors ELSE NotFoundErrors \cup OtherErrors

\* the test of the catch looking at the status only
IsNotFound_StatusOnly(error) == error.status = 404

\* error.status === 404 || error.message?.includes("not found")
IsNotFound(error) == error.status = 404 \/ error.notFound

\* the script at its start, in its run number 1. after: history, the first
\* run that succeeded and what the collection held at its end.
\* caught: the error the catch of the delete loop was given in this run.
IndexerStart ==
  [pc |-> "cargar", url |-> 1, run |-> 1, after |-> <<>>, caught |-> NoError]

\* what a collection holds, whatever the ids: how many points for each chunk
\* of each source
Content(points) ==
  [sc \in {<<p.source, p.chunk>> : p \in points} |->
     Cardinality({p \in points : <<p.source, p.chunk>> = sc})]

\* the delete with a filter that no point matches
DeleteBySource_NoMatch(points, url) == points

\* qdrantClient.delete with the filter metadata.source = url: what is left
DeleteBySource(points, url) == {p \in points : p.source # url}

\* PASO 2 and 3: the pages are loaded and split
Loaded ==
  /\ indexer.pc = "cargar"
  /\ indexer' = [indexer EXCEPT !.pc = "eliminar", !.url = 1]
  /\ UNCHANGED <<agentVars, universe, homework, state, collection>>

\* a loader fails: the script ends
LoadFails ==
  /\ indexer.pc = "cargar"
  /\ indexer' = [indexer EXCEPT !.pc = "error"]
  /\ UNCHANGED <<agentVars, universe, homework, state, collection>>

\* PASO 4, one turn of the for loop: the delete for the url at hand succeeds;
\* after the last url the insertion is next
Deleted ==
  /\ indexer.pc = "eliminar"
  /\ collection.exists
  /\ collection' = [collection EXCEPT
                      !.points = DeleteBySource(@, Urls[indexer.url])]
  /\ indexer' = IF indexer.url = Len(Urls)
                  THEN [indexer EXCEPT !.pc = "insertar"]
                  ELSE [indexer EXCEPT !.url = @ + 1]
  /\ UNCHANGED <<agentVars, universe, homework, state>>

\* the delete fails with a not-found error, the collection not existing: break
DeleteNotFound ==
  /\ indexer.pc = "eliminar"
  /\ \E error \in DeleteErrors :
       /\ IsNotFound(error)
       /\ indexer' = [indexer EXCEPT !.pc = "insertar", !.caught = error]
  /\ UNCHANGED <<agentVars, universe, homework, state, collection>>

\* the delete fails with another error, which is thrown again: the script ends
DeleteFails ==
  /\ indexer.pc = "eliminar"
  /\ \E error \in DeleteErrors :
       /\ ~IsNotFound(error)
       /\ indexer' = [indexer EXCEPT !.pc = "error", !.caught = error]
  /\ UNCHANGED <<agentVars, universe, homework, state, collection>>

\* PASO 5: QdrantVectorStore.fromDocuments creates the collection if it does
\* not exist and inserts one point for each chunk
Inserted ==
  /\ indexer.pc = "insertar"
  /\ collection' =
       [exists |-> TRUE,
        points |-> collection.points
                     \cup {Point(split, indexer.run) : split \in AllSplits}]
  /\ indexer' = [indexer EXCEPT !.pc = "verificar"]
  /\ UNCHANGED <<agentVars, universe, homework, state>>

\* fromDocuments fails (the embeddings or the upsert): the script ends
InsertFails ==
  /\ indexer.pc = "insertar"
  /\ indexer' = [indexer EXCEPT !.pc = "error"]
  /\ UNCHANGED <<agentVars, universe, homework, state, collection>>

\* PASO 6: the test search answers and the script ends
Verified ==
  /\ indexer.pc = "verificar"
  /\ indexer' = [indexer EXCEPT
                   !.pc = "fin",
                   !.after = IF @ = <<>>
                               THEN <<[run |-> indexer.run,
                                       content |-> Content(collection.points)]>>
                               ELSE @]
  /\ UNCHANGED <<agentVars, universe, homework, state, collection>>

\* the test search fails: the script ends
VerifyFails ==
  /\ indexer.pc = "verificar"
  /\ indexer' = [indexer EXCEPT !.pc = "error"]
  /\ UNCHANGED <<agentVars, universe, homework, state, collection>>

\* the script is run again
RunAgain ==
  /\ indexer.pc \in {"fin", "error"}
  /\ indexer.run < MaxRuns
  /\ indexer' = [indexer EXCEPT !.pc = "cargar", !.url = 1, !.run = @ + 1,
                                 !.caught = NoError]
  /\ UNCHANGED <<agentVars, universe, homework, state, collection>>

NextIndexer ==
  \/ Loaded
  \/ LoadFails
  \/ Deleted
  \/ DeleteNotFound
  \/ DeleteFails
  \/ Inserted
  \/ InsertFails
  \/ Verified
  \/ VerifyFails
  \/ RunAgain

\* ------------------------------------------------------------------- Agent
\* _sendMessageToClients raising an error when the thread's array is empty
SendMessageToClients_NoClientsError(uuid, message, fault) ==
  LET cur == Get(messagesHandlers, uuid)
  IN IF ~Truthy(cur)
       THEN [invoked |-> <<>>, error |-> "none"]
     ELSE IF cur.kind = "array"
       THEN IF cur.items = <<>>
              THEN [invoked |-> <<>>, error |-> "NoClients"]
            ELSE IF fault \in 1..Len(cur.items)
              THEN [invoked |-> SubSeq(cur.items, 1, fault), error |-> "handler"]
              ELSE [invoked |-> cur.items, error |-> "none"]
     ELSE [invoked |-> <<>>, error |-> "TypeError"]

\* _sendMessageToClients(uuid, message). fault = j > 0: the j-th handler that
\* forEach invokes throws (0: none does). Returns the handlers invoked, in
\* order, and the exception that leaves the method ("none" if none does).
SendMessageToClients(uuid, message, fault) ==
  LET cur == Get(messagesHandlers, uuid)
  IN IF ~Truthy(cur)
       THEN [invoked |-> <<>>, error |-> "none"]
     ELSE IF cur.kind = "array"
       THEN IF fault \in 1..Len(cur.items)
              THEN [invoked |-> SubSeq(cur.items, 1, fault), error |-> "handler"]
              ELSE [invoked |-> cur.items, error |-> "none"]
     \* an inherited function is truthy and has no forEach: TypeError
     ELSE [invoked |-> <<>>, error |-> "TypeError"]

\* the forEach of messageReceived with a seen-set kept per thread: a message
\* is skipped only when a turn of the same thread has marked it
RECURSIVE ForEachMessage_SeenPerThread(_, _, _, _, _)
ForEachMessage_SeenPerThread(t, uuid, msgs, fault, acc) ==
  IF msgs = <<>> \/ acc.error # "none" THEN acc
  ELSE
    LET msg == Head(msgs)
        idx == acc.idx + 1
    IN IF /\ Key(msg) \in acc.sent
          /\ (Key(msg) \in sentMessages => markedBy[Key(msg)] = uuid)
         THEN ForEachMessage_SeenPerThread(t, uuid, Tail(msgs), fault,
                                           [acc EXCEPT !.idx = idx])
       ELSE
         LET r   == SendMessageToClients(uuid, msg,
                                         IF fault[1] = idx THEN fault[2] ELSE 0)
             rec == [turn |-> t, thread |-> uuid, msg |-> msg,
                     invoked |-> r.invoked, error |-> r.error]
         IN ForEachMessage_SeenPerThread(t, uuid, Tail(msgs), fault,
              [sent  |-> IF r.error # "none" THEN acc.sent
                         ELSE acc.sent \cup {Key(msg)},
               calls |-> Append(acc.calls, rec),
               error |-> r.error,
               idx   |-> idx])

\* chunk.messages.forEach(...) of messageReceived for turn t on thread uuid.
\* fault = <<i, j>>: the j-th handler throws on the i-th message of the chunk.
\* acc = [sent, calls, error, idx], calls holding one record per call of
\* _sendMessageToClients; an exception ends the forEach at once, before the
\* message is marked in sentMessages.
RECURSIVE ForEachMessage(_, _, _, _, _)
ForEachMessage(t, uuid, msgs, fault, acc) ==
  IF msgs = <<>> \/ acc.error # "none" THEN acc
  ELSE
    LET msg == Head(msgs)
        idx == acc.idx + 1
    IN IF Key(msg) \in acc.sent
         THEN ForEachMessage(t, uuid, Tail(msgs), fault, [acc EXCEPT !.idx = idx])
       ELSE
         LET r   == SendMessageToClients(uuid, msg,
                                         IF fault[1] = idx THEN fault[2] ELSE 0)
             rec == [turn |-> t, thread |-> uuid, msg |-> msg,
                     invoked |-> r.invoked, error |-> r.error]
         IN ForEachMessage(t, uuid, Tail(msgs), fault,
              [sent  |-> IF r.error # "none" THEN acc.sent
                         ELSE acc.sent \cup {Key(msg)},
               calls |-> Append(acc.calls, rec),
               error |-> r.error,
               idx   |-> idx])

Reverse(s) == [i \in 1..Len(s) |-> s[Len(s) + 1 - i]]

\* the chunk's messages taken from the last to the first
ChunkResult_LastFirst(t, snap, fault) ==
  ForEachMessage(t, turns[t].thread, Reverse(snap), fault,
                 [sent |-> sentMessages, calls |-> <<>>, error |-> "none", idx |-> 0])

\* what one chunk with messages snap does in turn t, from the current state
ChunkResult(t, snap, fault) ==
  ForEachMessage(t, turns[t].thread, snap, fault,
                 [sent |-> sentMessages, calls |-> <<>>, error |-> "none", idx |-> 0])

\* the messages of the calls that invoked handler h, once per invocation
RECURSIVE Invocations(_, _)
Invocations(cs, h) ==
  IF cs = <<>> THEN <<>>
  ELSE LET c == Head(cs)
       IN [i \in 1..Cardinality({j \in 1..Len(c.invoked) : c.invoked[j] = h})
             |-> c.msg] \o Invocations(Tail(cs), h)

NewTurn(uuid) ==
  [thread |-> uuid, pc |-> "creating", cause |-> "none",
   reply |-> "Mensaje recibido"]

\* no request has been made to the web server
NoRequests == [stream |-> [h \in Handlers |-> [status |-> "none"]], message |-> <<>>]

\* no forEach is under way
Idle == [phase |-> "idle"]

\* the state after new Agent(...) in a fresh process
Fresh ==
  /\ messagesHandlers = <<>>
  /\ sentMessages = {}
  /\ turns = <<>>
  /\ delivered = [h \in Handlers |-> <<>>]
  /\ markedBy = <<>>
  /\ thrown = "none"
  /\ requests = NoRequests
  /\ fanout = Idle

\* The inputs of a behaviour are drawn from one of four universes, each wide
\* in one direction.
\* Two handler functions, on two threads, and an agent with one message.
FanOutUniverse ==
  [threads |-> OrdinaryThreadIds, handlers |-> Handlers, messages |-> {"m1"}]
\* One handler function, on two threads, and an agent with two messages.
StreamUniverse ==
  [threads |-> OrdinaryThreadIds, handlers |-> {"hA"}, messages |-> WithId]
\* One of the thread ids is the name of an inherited property.
InheritedKeyUniverse ==
  [threads |-> {"t1"} \cup ObjectPrototypeKeys, handlers |-> {"hA"},
   messages |-> {"m1"}]
\* The messages of the agent carry no id.
IdLessUniverse ==
  [threads |-> OrdinaryThreadIds, handlers |-> {"hA"}, messages |-> IdLess]

Universes ==
  {FanOutUniverse, StreamUniverse, InheritedKeyUniverse, IdLessUniverse}

\* no script has been started
NotStarted ==
  /\ homework = HomeworkStart
  /\ state = StateStart
  /\ indexer = IndexerStart
  /\ collection = NoCollection

Init == Fresh /\ NotStarted /\ universe \in Universes
InitFanOut == Fresh /\ NotStarted /\ universe = FanOutUniverse
InitStream == Fresh /\ NotStarted /\ universe = StreamUniverse
InitInheritedKey == Fresh /\ NotStarted /\ universe = InheritedKeyUniverse
InitIdLess == Fresh /\ NotStarted /\ universe = IdLessUniverse

\* the script 03_homework_maker run with one of the models; every await of
\* the script settles in the end
\* the indexer run on a collection that does not exist or holds old points
InitIndexer ==
  /\ Fresh
  /\ homework = HomeworkStart
  /\ state = StateStart
  /\ indexer = IndexerStart
  /\ collection \in {NoCollection}
                      \cup {[exists |-> TRUE, points |-> P] : P \in SUBSET OldPoints}
  /\ universe = IndexerUniverse
InitTrim == Fresh /\ NotStarted /\ universe = TrimUniverse
InitHomework == Fresh /\ NotStarted /\ universe \in HomeworkUniverses

\* number of handlers in all the arrays of messagesHandlers
RECURSIVE Registered(_)
Registered(keys) ==
  IF keys = {} THEN 0
  ELSE LET k == CHOOSE x \in keys : TRUE
       IN Len(messagesHandlers[k].items) + Registered(keys \ {k})

\* POST /message: calls agent.messageReceived(message, {thread_id}) without
\* awaiting it and answers at once. messageReceived runs up to its first
\* await, the creation of the agent stream.
PostMessage(uuid) ==
  /\ Len(turns) < MaxTurns
  /\ turns' = Append(turns, NewTurn(uuid))
  /\ UNCHANGED <<messagesHandlers, sentMessages, delivered, markedBy, thrown,
               universe, requests, fanout,
               scriptVars>>

\* await this.internalAgent.stream(...) resolves
StreamCreated(t) ==
  /\ turns[t].pc = "creating"
  /\ turns' = [turns EXCEPT ![t].pc = "streaming"]
  /\ UNCHANGED <<messagesHandlers, sentMessages, delivered, markedBy, thrown,
               universe, requests, fanout,
               scriptVars>>

\* await this.internalAgent.stream(...) rejects: messageReceived rejects
StreamCreateFails(t) ==
  /\ turns[t].pc = "creating"
  /\ turns' = [turns EXCEPT ![t].pc = "rejected", ![t].cause = "agent"]
  /\ UNCHANGED <<messagesHandlers, sentMessages, delivered, markedBy, thrown,
               universe, requests, fanout,
               scriptVars>>

\* the stream yields a chunk with messages: the body of the for await loop
Chunk(t, snap, fault) ==
  /\ turns[t].pc = "streaming"
  /\ LET r == ChunkResult(t, snap, fault)
     IN /\ sentMessages' = r.sent
        /\ delivered' = [h \in Handlers |-> delivered[h] \o Invocations(r.calls, h)]
        /\ markedBy' = [k \in r.sent |-> IF k \in sentMessages THEN markedBy[k]
                                         ELSE turns[t].thread]
        /\ turns' = [turns EXCEPT
             ![t].pc = IF r.error # "none" THEN "rejected" ELSE @,
             ![t].cause = r.error]
  /\ UNCHANGED <<messagesHandlers, thrown, universe, requests, fanout,
               scriptVars>>

\* the stream yields a chunk without messages: if (chunk.messages) is false,
\* nothing is done with the chunk
ChunkWithoutMessages(t) ==
  /\ turns[t].pc = "streaming"
  /\ UNCHANGED vars

\* the stream ends: the for await loop ends and messageReceived resolves
StreamEnds(t) ==
  /\ turns[t].pc = "streaming"
  /\ turns' = [turns EXCEPT ![t].pc = "resolved"]
  /\ UNCHANGED <<messagesHandlers, sentMessages, delivered, markedBy, thrown,
               universe, requests, fanout,
               scriptVars>>

\* the stream fails while awaiting the next chunk: messageReceived rejects
StreamFails(t) ==
  /\ turns[t].pc = "streaming"
  /\ turns' = [turns EXCEPT ![t].pc = "rejected", ![t].cause = "agent"]
  /\ UNCHANGED <<messagesHandlers, sentMessages, delivered, markedBy, thrown,
               universe, requests, fanout,
               scriptVars>>

\* registerNewMessageHandler(handler, uuid): what the method does
RegisterNewMessageHandler(handler, uuid) ==
  LET cur      == Get(messagesHandlers, uuid)
      assigned == IF Truthy(cur) THEN cur ELSE Arr(<<>>)
  IN IF assigned.kind = "array"
       THEN /\ messagesHandlers' =
                 Put(messagesHandlers, uuid, Arr(Append(assigned.items, handler)))
            /\ thrown' = "none"
       \* the assignment is done, then .push is not a function: TypeError
       ELSE /\ messagesHandlers' = Put(messagesHandlers, uuid, assigned)
            /\ thrown' = "TypeError"

\* a caller of the Agent calls registerNewMessageHandler(handler, uuid)
Register(handler, uuid) ==
  /\ Registered(DOMAIN messagesHandlers) < MaxHandlers
  /\ RegisterNewMessageHandler(handler, uuid)
  /\ UNCHANGED <<sentMessages, turns, delivered, markedBy, universe,
               requests, fanout, scriptVars>>

\* unregisterNewMessageHandler that leaves the thread's array as it is
UnregisterNewMessageHandler_Noop(uuid, handler) ==
  /\ messagesHandlers' = messagesHandlers
  /\ thrown' = "none"

\* unregisterNewMessageHandler(uuid, handler): what the method does
UnregisterNewMessageHandler(uuid, handler) ==
  LET cur == Get(messagesHandlers, uuid)
  IN IF ~Truthy(cur)
       THEN /\ messagesHandlers' = messagesHandlers
            /\ thrown' = "none"
     ELSE IF cur.kind = "array"
       THEN /\ messagesHandlers' =
                 Put(messagesHandlers, uuid,
                     Arr(SelectSeq(cur.items, LAMBDA h : h # handler)))
            /\ thrown' = "none"
       \* .filter is not a function: TypeError
       ELSE /\ messagesHandlers' = messagesHandlers
            /\ thrown' = "TypeError"

\* a caller of the Agent calls unregisterNewMessageHandler(uuid, handler)
Unregister(uuid, handler) ==
  /\ UnregisterNewMessageHandler(uuid, handler)
  /\ UNCHANGED <<sentMessages, turns, delivered, markedBy, universe,
               requests, fanout, scriptVars>>

\* which handler invocation of a chunk throws: none (<<0, 0>>), or the j-th
\* handler of thread uuid on the i-th message of snap
Faults(uuid, snap) ==
  {<<0, 0>>} \cup
  ((1..Len(snap)) \X (1..Len(Get(messagesHandlers, uuid).items)))

Next ==
  \/ \E uuid \in universe.threads : PostMessage(uuid)
  \/ \E t \in 1..Len(turns) : StreamCreated(t)
  \/ \E t \in 1..Len(turns) : StreamCreateFails(t)
  \/ \E t \in 1..Len(turns), snap \in Snapshots(universe.messages) :
        \E fault \in Faults(turns[t].thread, snap) : Chunk(t, snap, fault)
  \/ \E t \in 1..Len(turns) : ChunkWithoutMessages(t)
  \/ \E t \in 1..Len(turns) : StreamEnds(t)
  \/ \E t \in 1..Len(turns) : StreamFails(t)
  \/ \E h \in universe.handlers, uuid \in universe.threads : Register(h, uuid)
  \/ \E h \in universe.handlers, uuid \in universe.threads : Unregister(uuid, h)

Spec == Init /\ [][Next]_vars

SpecFanOut       == InitFanOut /\ [][Next]_vars
SpecStream       == InitStream /\ [][Next]_vars
SpecInheritedKey == InitInheritedKey /\ [][Next]_vars
SpecIdLess       == InitIdLess /\ [][Next]_vars

SpecIndexer == InitIndexer /\ [][NextIndexer]_vars

\* an agent whose state goes through trimMessages
SpecTrim == InitTrim /\ [][NextTrim]_vars

SpecHomework ==
  InitHomework /\ [][NextHomework]_vars /\ WF_vars(NextHomework)

\* ----------------------------------------------------------- web server
\* the conversations the clients of the web server are in: each request
\* carries the uuid of its client's conversation
Conversations == {"a", "b"}

\* the thread id the routes fall back to
DefaultThreadId == "chat-id-XXX"

\* the names of the path parameters the routes declare: "/message" and
\* "/stream" have no ":uuid" in their path
RouteParams == [message |-> {}, stream |-> {}]

\* request.params: one value for each parameter the route declares
Params(route, request) == [name \in RouteParams[route] |-> request[name]]

\* const thread_id = request.params.uuid || "chat-id-XXX"
ThreadId(route, request) ==
  IF "uuid" \in DOMAIN Params(route, request)
    THEN Params(route, request).uuid
    ELSE DefaultThreadId

\* One agent with two messages, two clients with a conversation each, and the
\* handler closures of two GET /stream requests.
ServerUniverse ==
  [threads |-> {DefaultThreadId}, handlers |-> Handlers, messages |-> WithId,
   conversations |-> Conversations]

InitServer == Fresh /\ NotStarted /\ universe = ServerUniverse

\* POST /message: the route calls agent.messageReceived(message, {thread_id})
\* without awaiting it, and answers
PostMessageRoute(request) ==
  /\ Len(turns) < MaxTurns
  /\ turns' = Append(turns, NewTurn(ThreadId("message", request)))
  /\ requests' = [requests EXCEPT !.message = Append(@, request.uuid)]
  /\ UNCHANGED <<messagesHandlers, sentMessages, delivered, markedBy, thrown,
               universe, fanout, scriptVars>>

\* GET /stream: the route sends the event "connected", creates the closure
\* handler, registers it and listens to the close event of the connection.
\* When the registration throws, the listener is not added.
GetStream(handler, request) ==
  /\ requests.stream[handler].status = "none"
  /\ Registered(DOMAIN messagesHandlers) < MaxHandlers
  /\ RegisterNewMessageHandler(handler, ThreadId("stream", request))
  /\ requests' = [requests EXCEPT !.stream[handler] =
                    [status    |-> "open",
                     uuid      |-> request.uuid,
                     thread_id |-> ThreadId("stream", request),
                     listening |-> thrown' = "none"]]
  /\ UNCHANGED <<sentMessages, turns, delivered, markedBy, universe, fanout,
               scriptVars>>

\* the client closes the connection: the listener of "close" unregisters the
\* handler
ConnectionClosed(handler) ==
  /\ requests.stream[handler].status = "open"
  /\ IF requests.stream[handler].listening
       THEN UnregisterNewMessageHandler(requests.stream[handler].thread_id, handler)
       ELSE UNCHANGED <<messagesHandlers, thrown>>
  /\ requests' = [requests EXCEPT !.stream[handler].status = "closed"]
  /\ UNCHANGED <<sentMessages, turns, delivered, markedBy, universe, fanout,
               scriptVars>>

NextServer ==
  \/ \E uuid \in universe.conversations : PostMessageRoute([uuid |-> uuid])
  \/ \E h \in universe.handlers, uuid \in universe.conversations :
        GetStream(h, [uuid |-> uuid])
  \/ \E h \in universe.handlers : ConnectionClosed(h)
  \/ \E t \in 1..Len(turns) : StreamCreated(t)
  \/ \E t \in 1..Len(turns) : StreamCreateFails(t)
  \/ \E t \in 1..Len(turns), snap \in Snapshots(universe.messages) :
        \E fault \in Faults(turns[t].thread, snap) : Chunk(t, snap, fault)
  \/ \E t \in 1..Len(turns) : ChunkWithoutMessages(t)
  \/ \E t \in 1..Len(turns) : StreamEnds(t)
  \/ \E t \in 1..Len(turns) : StreamFails(t)

SpecServer == InitServer /\ [][NextServer]_vars

\* ----------------------------------------- handlers that call the Agent
\* A handler is a function of the caller: while it is invoked it may call
\* registerNewMessageHandler or unregisterNewMessageHandler of the Agent that
\* invokes it. The forEach of messageReceived and the one of
\* _sendMessageToClients are then followed call by call. fanout holds, while
\* a chunk is processed: turn, rest (the messages of the chunk from the current
\* one on) and, during the forEach over the handlers of one message: array
\* (the elements of the array object that forEach was called on), len (its
\* length when forEach was called, which bounds the indexes visited), k (the
\* next index), aliased (whether messagesHandlers[uuid] still is that array
\* object), and the histories start (the array when forEach was called) and
\* invoked (the handlers invoked so far).

\* One thread, two handler functions that call back, an agent with one
\* message.
ReentrantUniverse ==
  [threads |-> {"t1"}, handlers |-> Handlers, messages |-> {"m1"}]

InitReentrant == Fresh /\ NotStarted /\ universe = ReentrantUniverse

\* what a handler does when it is invoked
Behaviours(hs) ==
  {<<"returns", "">>, <<"throws", "">>}
    \cup {<<"register", h>> : h \in hs} \cup {<<"unregister", h>> : h \in hs}

\* the stream yields a chunk with messages: chunk.messages.forEach begins
ChunkBegins(t, snap) ==
  /\ fanout = Idle
  /\ turns[t].pc = "streaming"
  /\ snap # <<>>
  /\ fanout' = [phase |-> "messages", turn |-> t, rest |-> snap]
  /\ UNCHANGED <<messagesHandlers, sentMessages, turns, delivered, markedBy,
               thrown, universe, requests, scriptVars>>

\* if (sentMessages[`${msg.id}`]) return
MessageSeen ==
  /\ fanout.phase = "messages"
  /\ fanout.rest # <<>>
  /\ Key(Head(fanout.rest)) \in sentMessages
  /\ fanout' = [fanout EXCEPT !.rest = Tail(@)]
  /\ UNCHANGED <<messagesHandlers, sentMessages, turns, delivered, markedBy,
               thrown, universe, requests, scriptVars>>

\* the message as marked by turn t
Marked(t, msg) ==
  /\ sentMessages' = sentMessages \cup {Key(msg)}
  /\ markedBy' = [k \in sentMessages \cup {Key(msg)} |->
                    IF k \in sentMessages THEN markedBy[k] ELSE turns[t].thread]

\* this._sendMessageToClients(thread_id, msg) is called for a new message:
\* without an entry it returns at once and the message is marked; on an array
\* forEach begins; on an inherited function the call of forEach throws
DispatchBegins ==
  /\ fanout.phase = "messages"
  /\ fanout.rest # <<>>
  /\ Key(Head(fanout.rest)) \notin sentMessages
  /\ LET t   == fanout.turn
         cur == Get(messagesHandlers, turns[t].thread)
     IN IF ~Truthy(cur)
          THEN /\ Marked(t, Head(fanout.rest))
               /\ fanout' = [fanout EXCEPT !.rest = Tail(@)]
               /\ UNCHANGED turns
        ELSE IF cur.kind = "array"
          THEN /\ fanout' = [phase   |-> "handlers",
                             turn    |-> t,
                             rest    |-> fanout.rest,
                             array   |-> cur.items,
                             len     |-> Len(cur.items),
                             k       |-> 1,
                             aliased |-> TRUE,
                             start   |-> cur.items,
                             invoked |-> <<>>]
               /\ UNCHANGED <<sentMessages, markedBy, turns>>
          ELSE /\ fanout' = Idle
               /\ turns' = [turns EXCEPT ![t].pc = "rejected",
                                         ![t].cause = "TypeError"]
               /\ UNCHANGED <<sentMessages, markedBy>>
  /\ UNCHANGED <<messagesHandlers, delivered, thrown, universe, requests,
               scriptVars>>

\* Array.prototype.forEach: index k is visited when it is below the length
\* the array had when forEach was called
Visits(array, len, k) == k <= len

\* forEach invokes the handler at index k with the message; the handler does
\* one of its behaviours. push of registerNewMessageHandler changes the array
\* object that messagesHandlers[uuid] refers to; filter of
\* unregisterNewMessageHandler makes a new array object.
HandlerInvoked(behaviour) ==
  /\ fanout.phase = "handlers"
  /\ Visits(fanout.array, fanout.len, fanout.k)
  /\ LET t    == fanout.turn
         uuid == turns[t].thread
         h    == fanout.array[fanout.k]
         on   == [fanout EXCEPT !.k = @ + 1, !.invoked = Append(@, h)]
     IN /\ delivered' = [delivered EXCEPT ![h] = Append(@, Head(fanout.rest))]
        /\ CASE behaviour[1] = "returns" ->
                  /\ fanout' = on
                  /\ UNCHANGED <<messagesHandlers, thrown, turns>>
             [] behaviour[1] = "throws" ->
                  /\ fanout' = Idle
                  /\ turns' = [turns EXCEPT ![t].pc = "rejected",
                                            ![t].cause = "handler"]
                  /\ UNCHANGED <<messagesHandlers, thrown>>
             [] behaviour[1] = "register" ->
                  /\ Registered(DOMAIN messagesHandlers) < MaxHandlers
                  /\ RegisterNewMessageHandler(behaviour[2], uuid)
                  /\ fanout' = IF fanout.aliased
                                 THEN [on EXCEPT !.array = Append(@, behaviour[2])]
                                 ELSE on
                  /\ UNCHANGED turns
             [] behaviour[1] = "unregister" ->
                  /\ UnregisterNewMessageHandler(uuid, behaviour[2])
                  /\ fanout' = [on EXCEPT !.aliased = FALSE]
                  /\ UNCHANGED turns
  /\ UNCHANGED <<sentMessages, markedBy, universe, requests, scriptVars>>

\* forEach has visited its indexes: _sendMessageToClients returns and the
\* message is marked
DispatchReturns ==
  /\ fanout.phase = "handlers"
  /\ ~Visits(fanout.array, fanout.len, fanout.k)
  /\ Marked(fanout.turn, Head(fanout.rest))
  /\ fanout' = [phase |-> "messages", turn |-> fanout.turn,
                rest |-> Tail(fanout.rest)]
  /\ UNCHANGED <<messagesHandlers, turns, delivered, thrown, universe, requests,
               scriptVars>>

\* chunk.messages.forEach has looked at every message of the chunk
ChunkEnds ==
  /\ fanout.phase = "messages"
  /\ fanout.rest = <<>>
  /\ fanout' = Idle
  /\ UNCHANGED <<messagesHandlers, sentMessages, turns, delivered, markedBy,
               thrown, universe, requests, scriptVars>>

\* the calls made from outside a forEach, which runs to its end first
BetweenChunks ==
  /\ fanout = Idle
  /\ \/ \E uuid \in universe.threads : PostMessage(uuid)
     \/ \E t \in 1..Len(turns) : StreamCreated(t)
     \/ \E t \in 1..Len(turns) : StreamCreateFails(t)
     \/ \E t \in 1..Len(turns) : StreamEnds(t)
     \/ \E t \in 1..Len(turns) : StreamFails(t)
     \/ \E h \in universe.handlers, uuid \in universe.threads : Register(h, uuid)
     \/ \E h \in universe.handlers, uuid \in universe.threads : Unregister(uuid, h)

NextReentrant ==
  \/ BetweenChunks
  \/ \E t \in 1..Len(turns), snap \in Snapshots(universe.messages) :
        ChunkBegins(t, snap)
  \/ MessageSeen
  \/ DispatchBegins
  \/ \E behaviour \in Behaviours(universe.handlers) : HandlerInvoked(behaviour)
  \/ DispatchReturns
  \/ ChunkEnds

SpecReentrant == InitReentrant /\ [][NextReentrant]_vars

\* ------------------------------------------------------------ the claims
\* the handler array of thread uuid (empty when the thread has none)
ListOf(uuid) == Get(messagesHandlers, uuid).items

\* the messages the calls of one chunk dispatched, in order
Dispatched(cs) == [i \in 1..Len(cs) |-> cs[i].msg]

\* the messages of snap whose key is neither in sent nor carried by an earlier
\* message of snap, in snap's order
RECURSIVE NewMessages(_, _)
NewMessages(snap, sent) ==
  IF snap = <<>> THEN <<>>
  ELSE IF Key(Head(snap)) \in sent THEN NewMessages(Tail(snap), sent)
  ELSE <<Head(snap)>> \o NewMessages(Tail(snap), sent \cup {Key(Head(snap))})

\* P(t, snap, r) holds of every step that processes a chunk snap in turn t,
\* r being what the chunk did
ChunkSteps(P(_, _, _)) ==
  \A t \in 1..Len(turns), snap \in Snapshots(universe.messages) :
    \A fault \in Faults(turns[t].thread, snap) :
      (turns[t].pc = "streaming" /\ messagesHandlers' = messagesHandlers
         /\ Chunk(t, snap, fault))
        => P(t, snap, ChunkResult(t, snap, fault))

\* every message the chunk dispatched went to exactly the registered handlers
C1_Dispatch(t, snap, r) ==
  \A i \in 1..Len(r.calls) :
    Range(r.calls[i].invoked) = Range(ListOf(turns[t].thread))
\* C1: whenever a message is dispatched for thread T, the set of handlers
\* invoked with it is exactly the set of handlers registered for T at that
\* moment.
C1_InvokedAreExactlyRegistered == [][ChunkSteps(C1_Dispatch)]_vars

\* every registered handler is invoked with the chunk's new messages, in order
C2_Chunk(t, snap, r) ==
  \A h \in Range(ListOf(turns[t].thread)) :
    Invocations(r.calls, h) = NewMessages(snap, sentMessages)
\* C2: a chunk of a turn delivers to every handler registered for the thread
\* exactly the messages of the chunk that no earlier chunk delivered, each
\* once, in the chunk's order: the snapshots [m1], [m1,m2] deliver m1, m2, and
\* a snapshot that adds one new message to seen ones delivers only the new one.
C2_OnlyNewMessagesEachOnce == [][ChunkSteps(C2_Chunk)]_vars

\* C3: no handler function has been invoked more than once with a message of
\* the same id.
C3_AtMostOncePerHandler ==
  \A h \in Handlers :
    \A i, j \in 1..Len(delivered[h]) :
      i # j => Key(delivered[h][i]) # Key(delivered[h][j])

\* a registered handler gets each dispatched message once, another one none
C4_Chunk(t, snap, r) ==
  \A h \in Handlers :
    Invocations(r.calls, h) =
      IF h \in Range(ListOf(turns[t].thread)) THEN Dispatched(r.calls) ELSE <<>>
\* C4: every message a turn dispatches is received exactly once by each
\* handler registered for the thread at that time, and not at all by a handler
\* that is not registered for it (one unregistered before the turn receives
\* nothing from it).
C4_ReceivedWhileRegistered == [][ChunkSteps(C4_Chunk)]_vars

\* a call in which a handler threw still invoked every handler of the thread
C5_Chunk(t, snap, r) ==
  \A i \in 1..Len(r.calls) :
    (r.calls[i].error = "handler" /\ Len(ListOf(turns[t].thread)) >= 2)
      => Range(ListOf(turns[t].thread)) \subseteq Range(r.calls[i].invoked)
\* C5: when one of two handlers registered for a thread throws on a message,
\* the other one is still invoked with that message, whichever is first.
C5_ThrowDoesNotStopFanOut == [][ChunkSteps(C5_Chunk)]_vars

\* after the chunk the turn is still running, all new messages dispatched
C6_Chunk(t, snap, r) ==
  /\ turns'[t].pc = "streaming"
  /\ Dispatched(r.calls) = NewMessages(snap, sentMessages)
\* C6: a handler that throws does not make messageReceived fail: the turn goes
\* on, and the remaining messages of the chunk are dispatched too.
C6_ThrowDoesNotFailTurn == [][ChunkSteps(C6_Chunk)]_vars

\* a turn the agent made fail has told so the request that started it
C7_Reported ==
  \A t \in 1..Len(turns) :
    (turns[t].pc = "rejected" /\ turns[t].cause = "agent")
      => turns[t].reply # "Mensaje recibido"
\* a failure of the stream dispatches nothing, a rejected turn processes no
\* chunk, and nothing delivered or marked seen is ever taken back
C7_NothingFurtherNoRollback ==
  /\ \A t \in 1..Len(turns) :
       (StreamFails(t) \/ StreamCreateFails(t))
         => sentMessages' = sentMessages /\ delivered' = delivered
  /\ \A t \in 1..Len(turns) :
       turns[t].pc = "rejected"
         => (\A snap \in Snapshots(universe.messages) :
               \A fault \in Faults(turns[t].thread, snap) : ~Chunk(t, snap, fault))
  /\ sentMessages \subseteq sentMessages'
  /\ \A h \in Handlers : IsPrefix(delivered[h], delivered'[h])
\* C7: when the agent stream fails, the failure is reported to the initiator
\* of the turn (the POST /message request), nothing more of the turn is
\* dispatched, and what was delivered and marked seen stays so.
C7_AgentFailureReported == [][C7_NothingFurtherNoRollback /\ C7_Reported']_vars

\* an unregister call raises nothing and changes nothing it need not change
C8_Unregister ==
  \A uuid \in universe.threads, h \in universe.handlers :
    Unregister(uuid, h) =>
      /\ thrown' = "none"
      /\ (h \notin Range(ListOf(uuid)) => messagesHandlers' = messagesHandlers)
\* C8: unregisterNewMessageHandler raises no error, and leaves the handler
\* arrays as they were when the thread has no entry or the handler is not in
\* the thread's array (so also when it is called a second time).
C8_UnregisterIdempotentTotal == [][C8_Unregister]_vars

\* an unregister call of a registered handler takes one element out
C9_Unregister ==
  \A uuid \in universe.threads, h \in universe.handlers :
    (Unregister(uuid, h) /\ h \in Range(ListOf(uuid))) =>
      /\ \E i \in 1..Len(ListOf(uuid)) :
           /\ ListOf(uuid)[i] = h
           /\ Get(messagesHandlers', uuid).items =
                SubSeq(ListOf(uuid), 1, i - 1)
                  \o SubSeq(ListOf(uuid), i + 1, Len(ListOf(uuid)))
      /\ \A other \in universe.threads \ {uuid} :
           Get(messagesHandlers', other) = Get(messagesHandlers, other)
\* C9: unregisterNewMessageHandler(T, h) removes one registration of h from
\* T's array and nothing else: the other registrations of T, another one of h
\* among them, stay in their order, and so do the arrays of the other threads.
C9_UnregisterRemovesOne == [][C9_Unregister]_vars

\* an unregister call keeps every entry, an array staying an array
C10_EntryKept ==
  \A uuid \in universe.threads, h \in universe.handlers :
    Unregister(uuid, h) =>
      /\ DOMAIN messagesHandlers \subseteq DOMAIN messagesHandlers'
      /\ (uuid \in DOMAIN messagesHandlers
            => messagesHandlers'[uuid].kind = messagesHandlers[uuid].kind)
\* every handler in the thread's array receives each dispatched message
C10_Dispatch(t, snap, r) ==
  \A i \in 1..Len(r.calls) :
    Range(ListOf(turns[t].thread)) \subseteq Range(r.calls[i].invoked)
\* C10: unregistering never deletes a thread's entry (the last handler gone,
\* the entry is an empty array), and the handlers registered for the thread
\* afterwards receive the messages dispatched from then on.
C10_EntryKeptAndUsable == [][C10_EntryKept /\ ChunkSteps(C10_Dispatch)]_vars

\* a register call raises nothing and appends the handler to the thread's array
C11_Register ==
  \A uuid \in universe.threads, h \in universe.handlers :
    Register(h, uuid) =>
      /\ thrown' = "none"
      /\ Get(messagesHandlers', uuid) = Arr(Append(ListOf(uuid), h))
      /\ \A other \in universe.threads \ {uuid} :
           Get(messagesHandlers', other) = Get(messagesHandlers, other)
\* the handlers a dispatch invokes are the first ones of the thread's array, in
\* the array's order
C11_Dispatch(t, snap, r) ==
  \A i \in 1..Len(r.calls) :
    IsPrefix(r.calls[i].invoked, ListOf(turns[t].thread))
\* C11: registerNewMessageHandler(h, T) succeeds in every state and for every
\* thread id, also one never seen before: T's array is created if absent and h
\* is appended at its end, and a dispatch invokes T's handlers in the order of
\* the array, which is the order of registration.
C11_RegisterAppendsInOrder == [][C11_Register /\ ChunkSteps(C11_Dispatch)]_vars

\* the keys of sentMessages that turns of thread uuid have set
OwnSeen(uuid) == {k \in sentMessages : markedBy[k] = uuid}

\* a turn of another thread is in flight
OtherThreadInFlight(t) ==
  \E o \in 1..Len(turns) :
    /\ turns[o].thread # turns[t].thread
    /\ turns[o].pc \in {"creating", "streaming"}

\* with a turn of another thread in flight and no handler throwing, the chunk
\* dispatches the messages its own thread has not seen, to the handlers of its
\* own thread and to no other
C12_Chunk(t, snap, r) ==
  (OtherThreadInFlight(t) /\ r.error = "none") =>
    /\ Dispatched(r.calls) = NewMessages(snap, OwnSeen(turns[t].thread))
    /\ \A h \in Handlers :
         Range(Invocations(r.calls, h)) =
           IF h \in Range(ListOf(turns[t].thread))
             THEN Range(NewMessages(snap, OwnSeen(turns[t].thread)))
             ELSE {}
\* a step of a turn leaves every handler array as it is
C12_ListsKept ==
  (turns' # turns \/ sentMessages' # sentMessages)
    => messagesHandlers' = messagesHandlers
\* C12: while turns of two different threads are in flight together, each
\* handler receives exactly the messages of the turn of its own thread: a turn
\* changes no handler array, and a message is held back from a thread only
\* when a turn of that same thread has marked it seen, never because a turn of
\* the other thread has.
C12_ThreadsDoNotInterfere == [][C12_ListsKept /\ ChunkSteps(C12_Chunk)]_vars

\* the turns of thread uuid that are in flight
InFlight(uuid) ==
  {t \in 1..Len(turns) :
     turns[t].thread = uuid /\ turns[t].pc \in {"creating", "streaming"}}

\* a messageReceived call for a thread with a turn in flight is rejected
C13_Post ==
  \A uuid \in universe.threads :
    (PostMessage(uuid) /\ InFlight(uuid) # {}) =>
      /\ turns'[Len(turns')].pc = "rejected"
      /\ turns'[Len(turns')].reply # "Mensaje recibido"
\* no thread has two turns in flight
C13_OneInFlight ==
  \A uuid \in universe.threads : Cardinality(InFlight(uuid)) <= 1
\* C13: a second messageReceived call for a thread that has a turn in flight
\* is rejected to its caller, so that no thread ever has two turns reading
\* snapshots at the same time.
C13_SecondTurnRejected == [][C13_Post /\ C13_OneInFlight']_vars

\* an unregister call takes the handler out of the thread's array at once and
\* touches neither the turns nor the seen-set
C14_Unregister ==
  \A uuid \in universe.threads, h \in universe.handlers :
    Unregister(uuid, h) =>
      /\ h \notin Range(Get(messagesHandlers', uuid).items)
      /\ turns' = turns
      /\ sentMessages' = sentMessages
\* a chunk invokes no handler that is not in the thread's array, and with an
\* empty array it still marks every message of the chunk and the turn goes on
C14_Chunk(t, snap, r) ==
  /\ \A h \in Handlers \ Range(ListOf(turns[t].thread)) :
       Invocations(r.calls, h) = <<>>
  /\ Get(messagesHandlers, turns[t].thread) = Arr(<<>>) =>
       /\ r.error = "none"
       /\ turns'[t].pc = "streaming"
       /\ sentMessages' = sentMessages \cup {Key(snap[i]) : i \in 1..Len(snap)}
\* C14: unregistering a handler while a turn is in flight takes effect for
\* every message dispatched after the call and does not stop the turn: the
\* turn stays in flight and goes on reading its stream, marking the messages
\* seen, also when the thread's array is left empty.
C14_UnregisterMidTurn == [][C14_Unregister /\ ChunkSteps(C14_Chunk)]_vars

\* C14 witness: the only turn is still streaming; hA received m1 from it and
\* was unregistered since, which left the thread's array empty; m2 is marked
\* seen by the turn and hA never received it.
C14_Witness ==
  /\ Len(turns) = 1
  /\ turns[1].pc = "streaming"
  /\ Get(messagesHandlers, turns[1].thread) = Arr(<<>>)
  /\ delivered["hA"] = <<"m1">>
  /\ sentMessages = {"m1", "m2"}
  /\ markedBy["m2"] = turns[1].thread

\* the place of x in the sequence s
Pos(s, x) == CHOOSE i \in 1..Len(s) : s[i] = x

\* the chunk dispatches its new messages in the snapshot's order, every handler
\* is invoked with them in the order of dispatch, and what a handler receives
\* comes after all it received from earlier chunks
C15_Chunk(t, snap, r) ==
  /\ IsPrefix(Dispatched(r.calls), NewMessages(snap, sentMessages))
  /\ \A h \in Handlers :
       LET inv == Invocations(r.calls, h)
       IN /\ Range(inv) \subseteq Range(Dispatched(r.calls))
          /\ \A i, j \in 1..Len(inv) :
               i < j => Pos(Dispatched(r.calls), inv[i])
                          <= Pos(Dispatched(r.calls), inv[j])
          /\ delivered'[h] = delivered[h] \o inv
\* C15: within a turn each handler receives the messages in the order the
\* snapshots arrive and, within a snapshot, in the order of its list: when a is
\* dispatched before b, a handler that receives both receives a before b.
C15_DeliveredInDispatchOrder == [][ChunkSteps(C15_Chunk)]_vars

\* C15 witness: hA, registered twice for the thread of the only turn, has
\* received m2 and then m1 from it, each once per registration.
C15_Witness ==
  /\ Len(turns) = 1
  /\ ListOf(turns[1].thread) = <<"hA", "hA">>
  /\ delivered["hA"] = <<"m2", "m2", "m1", "m1">>

\* no message whose key is set in sentMessages is dispatched, whichever
\* thread's turn has set it
C16_Chunk(t, snap, r) ==
  \A i \in 1..Len(r.calls) : Key(r.calls[i].msg) \notin sentMessages
\* a key set in sentMessages stays set, as set by the same thread
C16_MarksKept ==
  /\ sentMessages \subseteq sentMessages'
  /\ \A k \in sentMessages : markedBy'[k] = markedBy[k]
\* C16: sentMessages is one table for the whole process, shared by all
\* threads: once a turn of any thread has marked a message id seen, it stays
\* marked, and a message with that id in a snapshot of any thread, the same or
\* another, is not dispatched.
C16_SeenSetIsGlobal == [][C16_MarksKept /\ ChunkSteps(C16_Chunk)]_vars

\* C16 witness: two turns of different threads have ended; m1 was marked by the
\* turn of the other thread, and hA, registered for the thread of the turn
\* that marked m2, has received m2 and not m1.
C16_Witness ==
  /\ Len(turns) = 2
  /\ turns[1].thread # turns[2].thread
  /\ turns[1].pc = "resolved" /\ turns[2].pc = "resolved"
  /\ sentMessages = {"m1", "m2"}
  /\ markedBy["m1"] # markedBy["m2"]
  /\ ListOf(markedBy["m2"]) = <<"hA">>
  /\ ListOf(markedBy["m1"]) = <<>>
  /\ delivered["hA"] = <<"m2">>

\* the script is in its loop
InLoop == homework.pc \in {"while", "invoke", "for"}
\* the loop has been left, by the break or by the limit
LoopLeft == homework.pc \in {"informe", "invokeInforme", "fin"}

\* the model is invoked at most MAX_ITERACIONES times in the loop, and the loop
\* goes on only after a response with tool calls
C17_Bounded ==
  /\ homework.invocations <= MAX_ITERACIONES
  /\ homework.iteracion <= MAX_ITERACIONES
  /\ (homework.pc \in {"while", "for"} /\ homework.iteracion > 0)
       => homework.response.tool_calls # <<>>
\* a response without tool calls and the failing test of the loop both lead to
\* the report step, and once the loop is left no tool is executed and the
\* model is not invoked in the loop again
C17_Step ==
  /\ (homework.pc = "invoke" /\ homework'.pc # "error"
        /\ homework'.response.tool_calls = <<>>)
       => (homework'.pc = "informe" /\ homework'.executed = homework.executed)
  /\ (homework.pc = "while" /\ homework'.pc # "invoke")
       => (homework'.pc = "informe" /\ homework.iteracion = MAX_ITERACIONES)
  /\ LoopLeft =>
       /\ homework'.executed = homework.executed
       /\ homework'.invocations = homework.invocations
       /\ homework'.pc \in {"invokeInforme", "fin", "error"}
\* C17: the loop of the homework maker terminates: it invokes the model at most
\* MAX_ITERACIONES = 6 times, it is left at the first response without tool
\* calls, no tool being executed for that response, and whichever way it is
\* left, by that break or by the limit, the script goes on to the step that
\* asks for the structured report.
C17_LoopTerminates ==
  /\ [](C17_Bounded)
  /\ [][C17_Step]_vars
  /\ <>(~InLoop)
  /\ ((homework.pc = "informe") ~> (homework.pc = "invokeInforme"))

\* C17 witness: the loop was left by the limit, after six responses with tool
\* calls, and the report was produced.
C17_Witness ==
  /\ homework.pc = "fin"
  /\ homework.informe
  /\ homework.invocations = MAX_ITERACIONES
  /\ homework.response.tool_calls # <<>>

\* m is a response of the model with tool calls
IsToolResponse(m) == m.type = "ai" /\ m.tool_calls # <<>>

\* the ToolMessages of msgs between the response at i and the next response
\* with tool calls (or the end), in order
ToolMessagesAfter(msgs, i) ==
  LET later == {j \in (i + 1)..Len(msgs) : IsToolResponse(msgs[j])}
      stop  == IF later = {} THEN Len(msgs) + 1
               ELSE CHOOSE j \in later : \A k \in later : j <= k
  IN SelectSeq(SubSeq(msgs, i + 1, stop - 1), LAMBDA m : m.type = "tool")

\* every response with tool calls in msgs is followed by one ToolMessage per
\* call, in call order, with the call's id, an unknown tool's with the error
\* text; and no ToolMessage stands before the first such response
Answered(msgs) ==
  /\ \A i \in 1..Len(msgs) :
       IsToolResponse(msgs[i]) =>
         LET calls == msgs[i].tool_calls
             tms   == ToolMessagesAfter(msgs, i)
         IN /\ Len(tms) = Len(calls)
            /\ \A k \in 1..Len(calls) :
                 /\ tms[k].tool_call_id = calls[k].id
                 /\ calls[k].name \notin ToolNames
                      => tms[k].content = "Error: herramienta no reconocida"
  /\ \A j \in 1..Len(msgs) :
       msgs[j].type = "tool" => \E i \in 1..(j - 1) : IsToolResponse(msgs[i])

\* a call of an unknown tool does not end the script
C18_UnknownGoesOn ==
  (homework.pc = "for"
     /\ homework.response.tool_calls[homework.call].name \notin ToolNames)
    => homework'.pc \in {"for", "while"}
\* C18: when the loop of the homework maker is left, by the break or by the
\* limit, the history holds after each response with tool calls exactly one
\* ToolMessage per call, with that call's id, in call order; a call of an
\* unrecognised tool is answered with the error text and the loop goes on.
C18_EveryCallAnswered ==
  /\ [](LoopLeft => Answered(homework.messages))
  /\ [][C18_UnknownGoesOn]_vars

\* C18 witness: the loop was left by the limit and the report produced; the
\* last response, with text, called an unknown tool, and the history ends
\* with its error ToolMessage and the request for the report.
C18_Witness ==
  /\ homework.pc = "fin"
  /\ homework.invocations = MAX_ITERACIONES
  /\ homework.response = Response(TRUE, <<ToolCall("traductor", "a")>>)
  /\ LET n == Len(homework.messages)
     IN /\ homework.messages[n].type = "human"
        /\ homework.messages[n - 1] =
             ToolMessage("Error: herramienta no reconocida", "a")
        /\ homework.messages[n - 2] = AIMessage(Response(TRUE, <<>>))
        /\ homework.messages[n - 3] = AIMessage(homework.response)

\* a run of the middleware leaves a history of at most 3 messages as it is and
\* replaces a longer one by its first message and its last four
C19_Trim ==
  TrimBeforeModel =>
    LET m == state.messages
        n == Len(state.messages)
    IN IF n <= 3 THEN state' = state
       ELSE state'.messages = <<m[1], m[n - 3], m[n - 2], m[n - 1], m[n]>>
\* C19: trimMessages.beforeModel leaves the state unchanged when it holds 3
\* messages or fewer; otherwise it replaces the whole history by the first
\* message followed by the last 4 messages, in their original order.
C19_FirstAndLastFour == [][C19_Trim]_vars

\* C19 witness: six messages were added and the history was trimmed: it holds
\* the first message and the last four.
C19_Witness ==
  /\ state.ids = 6
  /\ Len(state.messages) = 5
  /\ [i \in 1..5 |-> state.messages[i].id] = <<1, 3, 4, 5, 6>>

\* points are taken out of the collection only by the delete loop, and put in
\* only by the insertion, which finds no point of an indexed url left
C20_DeleteThenInsert ==
  /\ (collection.points \ collection'.points # {}) => indexer.pc = "eliminar"
  /\ (collection'.points \ collection.points # {}) =>
       /\ indexer.pc = "insertar"
       /\ \A p \in collection.points : p.source \notin IndexedUrls
\* at the end of a run that succeeded, the points of each indexed url are the
\* ones that run inserted, and the collection holds what it held at the end of
\* the first run that succeeded
C20_AfterRun ==
  indexer.pc = "fin" =>
    /\ \A url \in IndexedUrls :
         {p \in collection.points : p.source = url} =
           {Point(split, indexer.run) : split \in {x \in AllSplits : x.source = url}}
    /\ Content(collection.points) = indexer.after[1].content
\* C20: the indexer avoids duplicates: the deletions of the points whose
\* metadata.source is an indexed url all come before the insertion, so that
\* after a run that succeeded the collection holds for each indexed url only
\* the points of that run, and a second run on unchanged pages leaves in the
\* collection what the first one left.
C20_NoDuplicates == [](C20_AfterRun) /\ [][C20_DeleteThenInsert]_vars

\* C20 witness: the first run succeeded on a collection that held old points,
\* the second run has succeeded too: the collection holds the points of the
\* second run and the old point of the page that is not indexed.
C20_Witness ==
  /\ indexer.pc = "fin"
  /\ indexer.run = 2
  /\ indexer.after[1].run = 1
  /\ collection.points =
       {Point(split, 2) : split \in AllSplits}
         \cup {Point([source |-> "Storage_API", chunk |-> 1], 0)}

\* the handler closures whose SSE connection is open
OpenConnections == {h \in Handlers : requests.stream[h].status = "open"}

\* how many times handler h stands in the arrays of messagesHandlers
RegisteredTimes(h) ==
  Cardinality({<<k, i>> \in (DOMAIN messagesHandlers) \X (1..MaxHandlers) :
                 /\ i <= Len(messagesHandlers[k].items)
                 /\ messagesHandlers[k].items[i] = h})

\* the registered handlers are the closures of the open connections, once each
C21_Count ==
  /\ Registered(DOMAIN messagesHandlers) = Cardinality(OpenConnections)
  /\ \A h \in Handlers : RegisteredTimes(h) = IF h \in OpenConnections THEN 1 ELSE 0
\* opening a connection appends its handler to the array of its thread,
\* closing it takes that handler out of the array, and the handler of a closed
\* connection is not invoked
C21_Step ==
  \A h \in Handlers :
    LET was == requests.stream[h]
        is  == requests'.stream[h]
    IN /\ (was.status = "none" /\ is.status = "open") =>
            Get(messagesHandlers', is.thread_id).items =
              Append(Get(messagesHandlers, is.thread_id).items, h)
       /\ (was.status = "open" /\ is.status = "closed") =>
            /\ h \in Range(Get(messagesHandlers, was.thread_id).items)
            /\ Get(messagesHandlers', was.thread_id).items =
                 SelectSeq(Get(messagesHandlers, was.thread_id).items,
                           LAMBDA x : x # h)
       /\ was.status = "closed" => delivered'[h] = delivered[h]
\* C21: each GET /stream connection registers one handler when it opens and
\* unregisters that handler when it closes; after the close the handler is
\* not invoked again, and at every moment there are as many registered
\* handlers as open SSE connections.
C21_HandlerPerConnection == [](C21_Count) /\ [][C21_Step]_vars

\* C21 witness: the connection of hA received m1 and was closed; m2 was
\* dispatched afterwards and reached only the connection of hB, still open.
C21_Witness ==
  /\ requests.stream["hA"].status = "closed"
  /\ requests.stream["hB"].status = "open"
  /\ delivered["hA"] = <<"m1">>
  /\ delivered["hB"] = <<"m1", "m2">>
  /\ ListOf(DefaultThreadId) = <<"hB">>

\* the handlers a chunk of turn t invoked belong to connections opened for the
\* conversation of the POST /message request that started turn t
C22_Chunk(t, snap, r) ==
  \A i \in 1..Len(r.calls) :
    \A h \in Range(r.calls[i].invoked) :
      requests.stream[h].uuid = requests.message[t]
\* C22: the web server keeps conversations apart: a message posted to
\* POST /message for one conversation is streamed only to the GET /stream
\* connections opened for that conversation, never to those of another one.
C22_OnlyOwnConversation == [][ChunkSteps(C22_Chunk)]_vars

\* a chunk processed while the thread has no handler marks all its messages
\* seen, and no chunk dispatches a message that is marked seen
C23_Chunk(t, snap, r) ==
  /\ ListOf(turns[t].thread) = <<>> =>
       \A i \in 1..Len(snap) : Key(snap[i]) \in sentMessages'
  /\ \A i \in 1..Len(r.calls) : Key(r.calls[i].msg) \notin sentMessages
\* C23: there is no replay: a message that a turn processed while no handler
\* was registered for its thread is marked seen and is never dispatched later,
\* so that a handler registered afterwards never receives it, whatever later
\* snapshots and turns contain.
C23_NoReplay == [][ChunkSteps(C23_Chunk)]_vars

\* the keys of the messages that some handler has been invoked with
DeliveredKeys ==
  UNION {{Key(delivered[h][i]) : i \in 1..Len(delivered[h])} : h \in Handlers}
\* a message that a chunk hands to at least one handler is in the seen-set
\* when the chunk is done, and was handed to no handler before
C24_Chunk(t, snap, r) ==
  \A i \in 1..Len(r.calls) :
    r.calls[i].invoked # <<>> =>
      /\ Key(r.calls[i].msg) \in sentMessages'
      /\ Key(r.calls[i].msg) \notin DeliveredKeys
\* C24: a new message is marked seen as part of its dispatch: once a handler
\* has been invoked with it, its id is in the seen-set and no later snapshot or
\* turn dispatches it again, also when a handler throws during its fan-out.
C24_MarkedWithDispatch == [][ChunkSteps(C24_Chunk)]_vars

\* turn t is not the only turn of its thread
SharesThread(t) ==
  \E t2 \in 1..Len(turns) : t2 # t /\ turns[t2].thread = turns[t].thread
\* when turn t shares its thread with another turn, the messages a chunk of
\* turn t dispatches were never dispatched before, by either turn, and the
\* chunk dispatches none of them twice
C26_Chunk(t, snap, r) ==
  SharesThread(t) =>
    /\ \A i \in 1..Len(r.calls) :
         Key(r.calls[i].msg) \notin (sentMessages \cup DeliveredKeys)
    /\ \A i, j \in 1..Len(r.calls) :
         i # j => Key(r.calls[i].msg) # Key(r.calls[j].msg)
\* C26: when two messageReceived turns of one thread are in flight at once,
\* interleaved at the awaits on their streams, every message id is dispatched
\* at most once in total: the test of the seen-set, the fan-out and the marking
\* of a message run without suspension, so the two turns never both dispatch
\* the same id.
C26_OnceAcrossTurns == [][ChunkSteps(C26_Chunk)]_vars

\* the positions of snap that hold a message without id
IdLessAt(snap) == {i \in 1..Len(snap) : snap[i] \in IdLess}
\* a chunk dispatches a message without id only if none was dispatched before,
\* it dispatches at most one, and that one is the first of the chunk
C27_Chunk(t, snap, r) ==
  LET dispatched == {i \in 1..Len(r.calls) : r.calls[i].msg \in IdLess}
      before     == Key("u1") \in (sentMessages \cup DeliveredKeys)
  IN /\ Key("u1") = Key("u2")
     /\ Cardinality(dispatched) <= 1
     /\ before => dispatched = {}
     /\ (~before /\ IdLessAt(snap) # {}) =>
          \E i \in dispatched :
            r.calls[i].msg = snap[CHOOSE k \in IdLessAt(snap) :
                                    \A l \in IdLessAt(snap) : k <= l]
\* C27: the deduplication key is the message id rendered as a string, so the
\* messages without id share one key: the first of them that any turn processes
\* is dispatched, and every later one, on any thread, is suppressed as a
\* duplicate, even if its content differs.
C27_IdLessShareOneKey == [][ChunkSteps(C27_Chunk)]_vars

\* no message stands twice in s
NoRepeat(s) == \A i, j \in 1..Len(s) : i # j => s[i] # s[j]
\* the history after the middleware is not longer than before, holds at most
\* 5 messages when it was trimmed, and repeats no message
C29_Trim ==
  TrimBeforeModel =>
    /\ Len(state'.messages) <= Len(state.messages)
    /\ (Len(state.messages) > 3 => Len(state'.messages) <= 5)
    /\ (NoRepeat(state.messages) => NoRepeat(state'.messages))
\* C29: trimMessages limits the history: for every input history its output
\* is never longer than the input, holds at most 5 messages and contains no
\* message twice, for histories of exactly 4 and 5 messages in particular.
C29_HistoryLimited == [][C29_Trim]_vars

\* a step of messageReceived (it adds a turn, moves one, marks a message or
\* invokes a handler) leaves messagesHandlers as it is, entries included
C30_MessageReceived ==
  (turns' # turns \/ sentMessages' # sentMessages \/ delivered' # delivered)
    => messagesHandlers' = messagesHandlers
\* a call of registerNewMessageHandler or unregisterNewMessageHandler on
\* thread uuid leaves the seen-set and the entry of every other thread as they
\* are, and creates or removes no other entry
C30_Register ==
  \A h \in universe.handlers, uuid \in universe.threads :
    (Register(h, uuid) \/ Unregister(uuid, h)) =>
      /\ sentMessages' = sentMessages
      /\ \A k \in (DOMAIN messagesHandlers \cup DOMAIN messagesHandlers') \ {uuid} :
           /\ k \in DOMAIN messagesHandlers
           /\ k \in DOMAIN messagesHandlers'
           /\ messagesHandlers'[k] = messagesHandlers[k]
\* C30: frame conditions of the Agent: messageReceived never adds, removes or
\* reorders a handler in the list of any thread and creates no thread entry;
\* registerNewMessageHandler and unregisterNewMessageHandler on thread T leave
\* the lists of the other threads and the seen-set unchanged.
C30_Frame == [][C30_MessageReceived /\ C30_Register]_vars

\* C30 witness: with hB registered on t2 and m1 marked seen, hA was registered
\* on t1, received a message there and was unregistered: the list of t2 and the
\* seen-set are as they were.
C30_Witness ==
  /\ DOMAIN messagesHandlers = {"t1", "t2"}
  /\ ListOf("t1") = <<>>
  /\ ListOf("t2") = <<"hB">>
  /\ delivered["hA"] = <<"m1">>
  /\ delivered["hB"] = <<>>
  /\ sentMessages = {"m1"}

\* the error is one the claim calls not-found
C28_NotFound(error) == error.status = 404 \/ error.notFound
\* a delete that fails with a not-found error is followed by the insertion,
\* with no delete in between; one that fails with another error ends the run,
\* and after it the collection does not change in this run
C28_Step ==
  /\ (indexer.pc = "eliminar" /\ indexer'.caught # NoError) =>
       /\ collection' = collection
       /\ indexer'.pc = IF C28_NotFound(indexer'.caught) THEN "insertar" ELSE "error"
  /\ (indexer.caught # NoError /\ indexer'.run = indexer.run) =>
       /\ indexer'.pc # "eliminar"
       /\ (~C28_NotFound(indexer.caught) => collection' = collection)
\* after a delete failed with an error that is not a not-found error, the
\* collection holds no point of this run
C28_NothingInserted ==
  (indexer.caught # NoError /\ ~C28_NotFound(indexer.caught)) =>
    /\ indexer.pc = "error"
    /\ \A p \in collection.points : p.run # indexer.run
\* C28: when a delete of the existing vectors fails with a not-found error
\* (status 404 or a message containing "not found"), the indexer issues no
\* further delete and goes on to the insertion; when it fails with any other
\* error, the run aborts and no vector is inserted.
C28_DeleteErrors == [](C28_NothingInserted) /\ [][C28_Step]_vars

\* C28 witness: the collection did not exist, the first delete of the first
\* run failed with a message containing "not found" and no status 404, and
\* the run went on: it created the collection and inserted its points.
C28_Witness ==
  /\ indexer.run = 1
  /\ indexer.pc = "fin"
  /\ indexer.caught = Error(0, TRUE)
  /\ collection.points = {Point(split, 1) : split \in AllSplits}

\* the handlers the forEach of _sendMessageToClients has invoked when it is
\* left, the one that throws included
Visited ==
  IF Visits(fanout.array, fanout.len, fanout.k)
    THEN Append(fanout.invoked, fanout.array[fanout.k])
    ELSE fanout.invoked
\* when the fan-out of a message is left, the handlers invoked are those of
\* the thread's list as it was when the fan-out began, each registration once
\* and in order, whatever the handlers did to the list meanwhile
C25_Step ==
  (fanout.phase = "handlers" /\ fanout'.phase # "handlers") =>
    Visited = fanout.start
\* C25: the fan-out of one message works on a consistent snapshot of the
\* thread's handler list even when handlers change the list during the
\* fan-out: a handler that an earlier handler unregisters during the fan-out
\* of m is still invoked with m, one registered during the fan-out of m is not
\* invoked with m, and no handler is skipped or invoked twice for m.
C25_ConsistentSnapshot == [][C25_Step]_vars

====
